---- MODULE Spec2Model ----
(***************************************************************************)
(* Race room editing (racetime/views/race.py, EditRace) as a state machine. *)
(*                                                                         *)
(* One room row lives in the database.  Edit requests run as concurrent    *)
(* processes; each goes through the steps Django's UpdateView takes:       *)
(* dispatch -> test_func (one read), post -> get_object (a second read),   *)
(* form binding, form_valid.  form_valid saves the whole instance with     *)
(* version = F('version') + 1 inside atomic(), calls                       *)
(* update_entrant_ratings() in the same transaction when the goal changed, *)
(* and after the transaction adds one system message per changed group,    *)
(* or broadcasts once when nothing changed.                                *)
(*                                                                         *)
(* The room's own lifecycle transitions (models.Race) are not part of the  *)
(* views; they are modelled from the specification, section 4.2.           *)
(***************************************************************************)
EXTENDS Integers, Sequences, FiniteSets, TLC

VARIABLES
    room,           \* the committed database row of the room
    lock,           \* holder of the row lock (an open transaction), or "none"
    messages,       \* the room's message sequence, in insertion order
    delivered,      \* versions of the snapshots sent to the room's subscribers
    pc,             \* position of each edit request
    obj,            \* the model instance each request holds (form applied)
    changed,        \* form.changed_data of each request
    todo,           \* system messages a request still has to add
    ratingCalls,    \* calls of update_entrant_ratings made by each request
    commitVersion,  \* version produced by the request's commit, 0 if none
    nCommits,       \* mutations committed to the room so far
    nTransitions,   \* lifecycle transitions taken so far
    entrants,       \* the room's entrants: status and readiness of each user
    pre_pending,    \* the state the room had before it became pending
    timers,         \* versions the countdown timers in flight were armed at
    posted_at,      \* posted_at of each message, aligned with messages
    deleted,        \* positions of the messages marked deleted
    clock,          \* the current time
    chat_log,       \* message positions in the last chat log downloaded
    races,          \* the category's races, in the order they were created
    cpc,            \* position of each create request
    cuser,          \* the user of each create request
    cinv,           \* the invitational flag each create request posted
    listing,        \* the last listing of the category's current races
    listing_of,     \* the races as they were when that listing was made
    nAdvances,      \* lifecycle transitions of the category's races so far
    category_active, \* the active flag of the category's row
    audit,          \* the category's audit log entries, in insertion order
    apc,            \* position of each administration request
    auser,          \* the user of each administration request
    aop,            \* what each administration request asks for
    mpc,            \* position of each management request
    muser,          \* the user of each management request
    owner,          \* the category's owner
    moderators,     \* the category's moderators
    qpc,            \* position of each moderator-page request
    qop,            \* what each moderator-page request asks for
    quser,          \* the user each moderator-page request names in its form
    qcat            \* the category instance each moderator-page request holds

\* The variables of an edit request and of the room it edits.
editVars == <<room, lock, messages, delivered, pc, obj, changed, todo,
              ratingCalls, commitVersion, nCommits, nTransitions>>

\* The variables of the entrant registry and the countdown.
readyVars == <<entrants, pre_pending, timers>>

\* The variables of the chat: besides messages, their times and flags.
chatVars == <<posted_at, deleted, clock, chat_log>>

\* The variables of the category: its races and its administration.
raceVars == <<races, cpc, cuser, cinv, listing, listing_of, nAdvances>>

\* The variables of the category's administration and management.
adminVars == <<category_active, audit, apc, auser, aop, mpc, muser>>

\* The variables of the category's owner and moderators.
modVars == <<owner, moderators, qpc, qop, quser, qcat>>

categoryVars == <<raceVars, adminVars, modVars>>

\* The variables an edit request never touches, but for posted_at.
nonEditVars == <<readyVars, chatVars, categoryVars>>

vars == <<editVars, nonEditVars>>

\* Bound on the number of lifecycle transitions of the room.
MaxTransitions == 3

\* The concurrent edit requests.
Reqs == {"r1", "r2"}

\* Fields of the edit form.
FormFields == {"goal", "custom_goal", "info", "streaming_required",
               "chat_message_delay"}

\* The row a room is created with.
InitRow ==
    [state |-> "open", version |-> 0,
     goal |-> "g1", custom_goal |-> "", info |-> "i1",
     streaming_required |-> FALSE, chat_message_delay |-> 0]

\* The form data a request may post.
PostedForms ==
    { [goal |-> "g1", custom_goal |-> "", info |-> "i1",
       streaming_required |-> FALSE, chat_message_delay |-> 0],
      [goal |-> "g1", custom_goal |-> "", info |-> "i1",
       streaming_required |-> TRUE, chat_message_delay |-> 0],
      [goal |-> "g2", custom_goal |-> "", info |-> "i1",
       streaming_required |-> FALSE, chat_message_delay |-> 0],
      [goal |-> "", custom_goal |-> "c1", info |-> "i1",
       streaming_required |-> FALSE, chat_message_delay |-> 0],
      [goal |-> "g1", custom_goal |-> "", info |-> "i2",
       streaming_required |-> FALSE, chat_message_delay |-> 5] }

\* Race.is_done: the room is finished or cancelled.
is_done(row) == row.state \in {"finished", "cancelled"}

\* form.changed_data: the form fields whose posted value differs from the
\* value of the instance the form was built from.
changed_data(row, post) == {f \in FormFields : row[f] # post[f]}

\* form.save(commit=False): the loaded instance with the posted values.
form_save(row, post) ==
    [row EXCEPT !.goal = post.goal, !.custom_goal = post.custom_goal,
                !.info = post.info,
                !.streaming_required = post.streaming_required,
                !.chat_message_delay = post.chat_message_delay]

\* The users that may enter the room.
Entrants == {"A", "B"}

InitReady ==
    /\ entrants = [u \in Entrants |-> [status |-> "none", ready |-> FALSE]]
    /\ pre_pending = "none"
    /\ timers = {}

InitEdit ==
    /\ room = InitRow
    /\ lock = "none"
    /\ messages = <<>>
    /\ delivered = <<>>
    /\ pc = [r \in Reqs |-> "start"]
    /\ obj = [r \in Reqs |-> InitRow]
    /\ changed = [r \in Reqs |-> {}]
    /\ todo = [r \in Reqs |-> <<>>]
    /\ ratingCalls = [r \in Reqs |-> 0]
    /\ commitVersion = [r \in Reqs |-> 0]
    /\ nCommits = 0
    /\ nTransitions = 0

InitChat ==
    /\ posted_at = <<>>
    /\ deleted = {}
    /\ clock = 0
    /\ chat_log = <<>>

\* The concurrent requests to create a race.
CreateReqs == {"c1", "c2"}

InitRaces ==
    /\ races = <<>>
    /\ cpc = [c \in CreateReqs |-> "start"]
    /\ cuser = [c \in CreateReqs |-> "nobody"]
    /\ cinv = [c \in CreateReqs |-> FALSE]
    /\ listing = <<>>
    /\ listing_of = <<>>
    /\ nAdvances = 0

\* The concurrent requests to deactivate or reactivate the category, and
\* the requests to one of its management pages.
AdminReqs == {"a1", "a2"}
ManageReqs == {"m1"}

\* A user as the permission tests see it: user.is_active, user.is_staff and
\* what category.can_edit(user) answers.
Users == [is_active : BOOLEAN, is_staff : BOOLEAN, can_edit : BOOLEAN]

Nobody == [is_active |-> FALSE, is_staff |-> FALSE, can_edit |-> FALSE]

InitAdmin ==
    /\ category_active = TRUE
    /\ audit = <<>>
    /\ apc = [a \in AdminReqs |-> "start"]
    /\ auser = [a \in AdminReqs |-> Nobody]
    /\ aop = [a \in AdminReqs |-> "none"]
    /\ mpc = [m \in ManageReqs |-> "start"]
    /\ muser = [m \in ManageReqs |-> Nobody]

\* The concurrent requests to add or remove a moderator or to transfer the
\* ownership, and the users they may name.
ModReqs == {"q1", "q2"}
People == {"u1", "u2", "u3", "u4"}

\* category.max_moderators
max_moderators == 2

\* No request to the moderator pages has started.
InitModReqs ==
    /\ qpc = [q \in ModReqs |-> "start"]
    /\ qop = [q \in ModReqs |-> "none"]
    /\ quser = [q \in ModReqs |-> "u1"]
    /\ qcat = [q \in ModReqs |-> [owner |-> "u1", active |-> TRUE]]

\* A new category: its owner and no moderator.
InitMods ==
    /\ owner = "u1"
    /\ moderators = {}
    /\ InitModReqs

InitCategory == InitRaces /\ InitAdmin /\ InitMods

Init == InitEdit /\ InitReady /\ InitChat /\ InitCategory

\* EditRace.test_func: the user may monitor the race and the room read now
\* is not done.
test_func(r) ==
    /\ pc[r] = "start"
    /\ \E can_monitor \in BOOLEAN :
          pc' = [pc EXCEPT ![r] = IF can_monitor /\ ~is_done(room)
                                  THEN "checked" ELSE "forbidden"]
    /\ UNCHANGED <<room, lock, messages, delivered, obj, changed, todo,
                   ratingCalls, commitVersion, nCommits, nTransitions>>
    /\ UNCHANGED nonEditVars

\* get_object in post, the form bound to the posted data, and line 204,
\* form.save(commit=False): the request now holds the row as read here with
\* the posted values applied.
get_object(r) ==
    /\ pc[r] = "checked"
    /\ \E post \in PostedForms :
          /\ obj' = [obj EXCEPT ![r] = form_save(room, post)]
          /\ changed' = [changed EXCEPT ![r] = changed_data(room, post)]
    /\ pc' = [pc EXCEPT ![r] = "valid"]
    /\ UNCHANGED <<room, lock, messages, delivered, todo, ratingCalls,
                   commitVersion, nCommits, nTransitions>>
    /\ UNCHANGED nonEditVars

\* One call of update_entrant_ratings for each changed goal field.
rating_triggers_per_field(chg) ==
    Cardinality(chg \cap {"goal", "custom_goal"})

\* Lines 208-209: update_entrant_ratings is called once when goal or
\* custom_goal is among the changed fields.
rating_triggers(chg) ==
    IF "goal" \in chg \/ "custom_goal" \in chg THEN 1 ELSE 0

\* The version computed in Python from the loaded instance.
saved_row_loaded_version(r) == [obj[r] EXCEPT !.version = obj[r].version + 1]

\* Lines 205-207: race.save() writes every field of the instance the request
\* holds; version = F('version') + 1 is evaluated by the database against
\* the stored row.
saved_row(r) == [obj[r] EXCEPT !.version = room.version + 1]

\* One goal message for each changed goal field.
edit_messages_per_field(chg, inst) ==
    (IF "goal" \in chg THEN <<"set a new goal">> ELSE <<>>)
    \o (IF "custom_goal" \in chg THEN <<"set a new goal">> ELSE <<>>)
    \o (IF "info" \in chg
        THEN <<"updated the race information">> ELSE <<>>)
    \o (IF "streaming_required" \in chg
        THEN <<IF inst.streaming_required
                  THEN "Streaming is now required for this race."
                  ELSE "Streaming is now NOT required for this race.">>
        ELSE <<>>)
    \o (IF "chat_message_delay" \in chg
        THEN <<IF inst.chat_message_delay # 0
                  THEN "Chat delay is now N seconds."
                  ELSE "Chat delay has been removed.">>
        ELSE <<>>)

\* Lines 211-236: the system messages of an edit, in the order they are added.
edit_messages(chg, inst) ==
    (IF "goal" \in chg \/ "custom_goal" \in chg
        THEN <<"set a new goal">> ELSE <<>>)
    \o (IF "info" \in chg
        THEN <<"updated the race information">> ELSE <<>>)
    \o (IF "streaming_required" \in chg
        THEN <<IF inst.streaming_required
                  THEN "Streaming is now required for this race."
                  ELSE "Streaming is now NOT required for this race.">>
        ELSE <<>>)
    \o (IF "chat_message_delay" \in chg
        THEN <<IF inst.chat_message_delay # 0
                  THEN "Chat delay is now N seconds."
                  ELSE "Chat delay has been removed.">>
        ELSE <<>>)

\* The transaction of request r commits: the row is replaced, the row lock
\* is released and the request goes on to its messages.
commit(r) ==
    /\ room' = saved_row(r)
    /\ lock' = "none"
    /\ commitVersion' = [commitVersion EXCEPT ![r] = room'.version]
    /\ nCommits' = nCommits + 1
    /\ todo' = [todo EXCEPT ![r] = edit_messages(changed[r], obj[r])]
    /\ pc' = [pc EXCEPT ![r] = IF todo'[r] = <<>> THEN "broadcast"
                                                  ELSE "messages"]

\* Lines 205-207: with atomic(): race.save().  When no rating update is due
\* the block ends here and the transaction commits; otherwise the UPDATE
\* holds the row lock until the block ends.
save(r) ==
    /\ pc[r] = "valid"
    /\ lock = "none"
    /\ IF rating_triggers(changed[r]) = 0
          THEN commit(r)
          ELSE /\ lock' = r
               /\ pc' = [pc EXCEPT ![r] = "rating"]
               /\ UNCHANGED <<room, todo, commitVersion, nCommits>>
    /\ UNCHANGED <<messages, delivered, obj, changed, ratingCalls,
                   nTransitions>>
    /\ UNCHANGED nonEditVars

\* Line 209: update_entrant_ratings() returns; the atomic block ends and the
\* transaction commits.
update_entrant_ratings(r) ==
    /\ pc[r] = "rating"
    /\ ratingCalls' = [ratingCalls EXCEPT
                          ![r] = @ + rating_triggers(changed[r])]
    /\ commit(r)
    /\ UNCHANGED <<messages, delivered, obj, changed, nTransitions>>
    /\ UNCHANGED nonEditVars

\* The rating update run after the transaction: its failure leaves the
\* saved row in place.
update_entrant_ratings_raises_after_commit(r) ==
    /\ pc[r] = "rating"
    /\ ratingCalls' = [ratingCalls EXCEPT
                          ![r] = @ + rating_triggers(changed[r])]
    /\ room' = saved_row(r)
    /\ lock' = "none"
    /\ commitVersion' = [commitVersion EXCEPT ![r] = room'.version]
    /\ nCommits' = nCommits + 1
    /\ pc' = [pc EXCEPT ![r] = "error"]
    /\ UNCHANGED <<messages, delivered, obj, changed, todo, nTransitions>>
    /\ UNCHANGED nonEditVars

\* Line 209: update_entrant_ratings() raises; atomic() rolls the UPDATE back
\* and the exception ends the request.
update_entrant_ratings_raises(r) ==
    /\ pc[r] = "rating"
    /\ ratingCalls' = [ratingCalls EXCEPT
                          ![r] = @ + rating_triggers(changed[r])]
    /\ lock' = "none"
    /\ pc' = [pc EXCEPT ![r] = "error"]
    /\ UNCHANGED <<room, messages, delivered, obj, changed, todo,
                   commitVersion, nCommits, nTransitions>>
    /\ UNCHANGED nonEditVars

\* Race.broadcast_data: the room's current snapshot is sent to the
\* subscribers.  After save() the instance's version is the expression
\* F('version') + 1, not a number, so the snapshot's version is the stored one.
snapshot_version == room.version

\* Lines 213-236, one call of race.add_message: the message is inserted and
\* the room is broadcast.
add_message(r) ==
    /\ pc[r] = "messages"
    /\ messages' = Append(messages, [req |-> r, text |-> Head(todo[r])])
    /\ delivered' = Append(delivered, snapshot_version)
    /\ todo' = [todo EXCEPT ![r] = Tail(@)]
    /\ pc' = [pc EXCEPT ![r] = IF todo'[r] = <<>> THEN "done" ELSE "messages"]
    /\ posted_at' = Append(posted_at, clock)
    /\ UNCHANGED <<room, lock, obj, changed, ratingCalls, commitVersion,
                   nCommits, nTransitions>>
    /\ UNCHANGED <<readyVars, deleted, clock, chat_log, categoryVars>>

\* The edit ends without broadcasting the room.
broadcast_data_skipped(r) ==
    /\ pc[r] = "broadcast"
    /\ pc' = [pc EXCEPT ![r] = "done"]
    /\ UNCHANGED <<room, lock, messages, delivered, obj, changed, todo,
                   ratingCalls, commitVersion, nCommits, nTransitions>>
    /\ UNCHANGED nonEditVars

\* Lines 237-238: no message was added, so the edit broadcasts the room itself.
broadcast_data(r) ==
    /\ pc[r] = "broadcast"
    /\ delivered' = Append(delivered, snapshot_version)
    /\ pc' = [pc EXCEPT ![r] = "done"]
    /\ UNCHANGED <<room, lock, messages, obj, changed, todo, ratingCalls,
                   commitVersion, nCommits, nTransitions>>
    /\ UNCHANGED nonEditVars

\* The lifecycle of a room: the states that may follow state s.
next_states(s) ==
    CASE s \in {"open", "invitational"} -> {"pending", "cancelled"}
      [] s = "pending" -> {"in_progress", "open", "cancelled"}
      [] s = "in_progress" -> {"finished", "cancelled"}
      [] OTHER -> {}

\* A lifecycle transition of the room, committed on its own: the state
\* changes, the version rises by one and the new snapshot is published.
room_transition ==
    /\ lock = "none"
    /\ nTransitions < MaxTransitions
    /\ \E s \in next_states(room.state) :
          room' = [room EXCEPT !.state = s, !.version = @ + 1]
    /\ nCommits' = nCommits + 1
    /\ nTransitions' = nTransitions + 1
    /\ delivered' = Append(delivered, room'.version)
    /\ UNCHANGED <<lock, messages, pc, obj, changed, todo, ratingCalls,
                   commitVersion>>
    /\ UNCHANGED nonEditVars

Next ==
    \/ \E r \in Reqs : test_func(r)
    \/ \E r \in Reqs : get_object(r)
    \/ \E r \in Reqs : save(r)
    \/ \E r \in Reqs : update_entrant_ratings(r)
    \/ \E r \in Reqs : update_entrant_ratings_raises(r)
    \/ \E r \in Reqs : add_message(r)
    \/ \E r \in Reqs : broadcast_data(r)
    \/ room_transition

Spec == Init /\ [][Next]_vars

\* The edit requests alone, on a room whose state nothing else changes.
NextEdits ==
    \/ \E r \in Reqs : test_func(r)
    \/ \E r \in Reqs : get_object(r)
    \/ \E r \in Reqs : save(r)
    \/ \E r \in Reqs : update_entrant_ratings(r)
    \/ \E r \in Reqs : update_entrant_ratings_raises(r)
    \/ \E r \in Reqs : add_message(r)
    \/ \E r \in Reqs : broadcast_data(r)

SpecEdits == Init /\ [][NextEdits]_vars

\* form_valid is straight-line code: once the transaction has committed, the
\* request goes on to add its messages or to broadcast.
EditFairness ==
    \A r \in Reqs : WF_vars(add_message(r)) /\ WF_vars(broadcast_data(r))

SpecEditsFair == Init /\ [][NextEdits]_vars /\ EditFairness

(***************************************************************************)
(* Entrant registry and countdown.  The code of these operations is in     *)
(* models.Race and the chat consumers, outside the views; they follow the  *)
(* specification, sections 4.2, 4.3 and 5.  Each operation is one commit   *)
(* under the version guard; every mutation it holds raises the version.    *)
(***************************************************************************)

\* Bound on the room's version in the entrant operations.
MaxVersion == 8

\* Every entrant, withdrawn or not, has to be ready.
all_ready_counting_withdrawn(e) ==
    \A u \in Entrants : e[u].status # "none" => e[u].ready

\* The race-start condition: every non-withdrawn entrant is ready.
all_ready(e) ==
    \A u \in Entrants : e[u].status = "joined" => e[u].ready

\* join(room, actor): a user enters a room that accepts joins.
join(u) ==
    /\ lock = "none"
    /\ room.version < MaxVersion
    /\ room.state \in {"open", "invitational"}
    /\ entrants[u].status = "none"
    /\ entrants' = [entrants EXCEPT ![u] = [status |-> "joined",
                                           ready |-> FALSE]]
    /\ room' = [room EXCEPT !.version = @ + 1]
    /\ nCommits' = nCommits + 1
    /\ UNCHANGED <<lock, messages, delivered, pc, obj, changed, todo,
                   ratingCalls, commitVersion, nTransitions, pre_pending,
                   timers>>
    /\ UNCHANGED <<chatVars, categoryVars>>

\* withdraw(entrant): an entrant leaves before the race starts.
withdraw(u) ==
    /\ lock = "none"
    /\ room.version < MaxVersion
    /\ room.state \in {"open", "invitational"}
    /\ entrants[u].status = "joined"
    /\ entrants' = [entrants EXCEPT ![u] = [status |-> "withdrawn",
                                           ready |-> FALSE]]
    /\ room' = [room EXCEPT !.version = @ + 1]
    /\ nCommits' = nCommits + 1
    /\ UNCHANGED <<lock, messages, delivered, pc, obj, changed, todo,
                   ratingCalls, commitVersion, nTransitions, pre_pending,
                   timers>>
    /\ UNCHANGED <<chatVars, categoryVars>>

\* setReady(entrant, true): the entrant becomes ready; in the same commit the
\* race-start condition is checked and, when it holds, the room becomes
\* pending and a countdown is armed for the new version.
set_ready(u) ==
    /\ lock = "none"
    /\ room.version < MaxVersion
    /\ room.state \in {"open", "invitational"}
    /\ entrants[u].status = "joined"
    /\ ~entrants[u].ready
    /\ entrants' = [entrants EXCEPT ![u].ready = TRUE]
    /\ IF all_ready(entrants')
          THEN /\ room' = [room EXCEPT !.state = "pending",
                                       !.version = @ + 2]
               /\ pre_pending' = room.state
               /\ timers' = timers \cup {room'.version}
               /\ nCommits' = nCommits + 2
          ELSE /\ room' = [room EXCEPT !.version = @ + 1]
               /\ nCommits' = nCommits + 1
               /\ UNCHANGED <<pre_pending, timers>>
    /\ UNCHANGED <<lock, messages, delivered, pc, obj, changed, todo,
                   ratingCalls, commitVersion, nTransitions>>
    /\ UNCHANGED <<chatVars, categoryVars>>

\* Un-ready during pending that always goes back to open.
set_unready_to_open(u) ==
    /\ lock = "none"
    /\ room.version < MaxVersion
    /\ room.state \in {"open", "invitational", "pending"}
    /\ entrants[u].status = "joined"
    /\ entrants[u].ready
    /\ entrants' = [entrants EXCEPT ![u].ready = FALSE]
    /\ IF room.state = "pending"
          THEN /\ room' = [room EXCEPT !.state = "open", !.version = @ + 2]
               /\ pre_pending' = "none"
               /\ nCommits' = nCommits + 2
          ELSE /\ room' = [room EXCEPT !.version = @ + 1]
               /\ nCommits' = nCommits + 1
               /\ UNCHANGED pre_pending
    /\ UNCHANGED <<lock, messages, delivered, pc, obj, changed, todo,
                   ratingCalls, commitVersion, nTransitions, timers>>
    /\ UNCHANGED <<chatVars, categoryVars>>

\* Un-ready during pending that raises the version once.
set_unready_one_increment(u) ==
    /\ lock = "none"
    /\ room.version < MaxVersion
    /\ room.state \in {"open", "invitational", "pending"}
    /\ entrants[u].status = "joined"
    /\ entrants[u].ready
    /\ entrants' = [entrants EXCEPT ![u].ready = FALSE]
    /\ IF room.state = "pending"
          THEN /\ room' = [room EXCEPT !.state = pre_pending,
                                       !.version = @ + 1]
               /\ pre_pending' = "none"
               /\ nCommits' = nCommits + 1
          ELSE /\ room' = [room EXCEPT !.version = @ + 1]
               /\ nCommits' = nCommits + 1
               /\ UNCHANGED pre_pending
    /\ UNCHANGED <<lock, messages, delivered, pc, obj, changed, todo,
                   ratingCalls, commitVersion, nTransitions, timers>>
    /\ UNCHANGED <<chatVars, categoryVars>>

\* setReady(entrant, false): the entrant is no longer ready.  During pending
\* the same commit puts the room back into its pre-pending state: two
\* mutations, the ready-revert and the state-revert, in one commit.  The
\* countdown armed for the old version stays in flight.
set_unready(u) ==
    /\ lock = "none"
    /\ room.version < MaxVersion
    /\ room.state \in {"open", "invitational", "pending"}
    /\ entrants[u].status = "joined"
    /\ entrants[u].ready
    /\ entrants' = [entrants EXCEPT ![u].ready = FALSE]
    /\ IF room.state = "pending"
          THEN /\ room' = [room EXCEPT !.state = pre_pending,
                                       !.version = @ + 2]
               /\ pre_pending' = "none"
               /\ nCommits' = nCommits + 2
          ELSE /\ room' = [room EXCEPT !.version = @ + 1]
               /\ nCommits' = nCommits + 1
               /\ UNCHANGED pre_pending
    /\ UNCHANGED <<lock, messages, delivered, pc, obj, changed, todo,
                   ratingCalls, commitVersion, nTransitions, timers>>
    /\ UNCHANGED <<chatVars, categoryVars>>

\* A countdown that starts the race whenever the room is pending.
timer_fires_unguarded(v) ==
    /\ lock = "none"
    /\ v \in timers
    /\ timers' = timers \ {v}
    /\ IF room.state = "pending"
          THEN /\ room' = [room EXCEPT !.state = "in_progress",
                                       !.version = @ + 1]
               /\ nCommits' = nCommits + 1
          ELSE UNCHANGED <<room, nCommits>>
    /\ UNCHANGED <<lock, messages, delivered, pc, obj, changed, todo,
                   ratingCalls, commitVersion, nTransitions, entrants,
                   pre_pending>>
    /\ UNCHANGED <<chatVars, categoryVars>>

\* The countdown armed at version v elapses: the race starts if the room's
\* version is still v, and nothing happens otherwise (stale-timer guard).
timer_fires(v) ==
    /\ lock = "none"
    /\ v \in timers
    /\ timers' = timers \ {v}
    /\ IF room.version = v
          THEN /\ room' = [room EXCEPT !.state = "in_progress",
                                       !.version = @ + 1]
               /\ nCommits' = nCommits + 1
          ELSE UNCHANGED <<room, nCommits>>
    /\ UNCHANGED <<lock, messages, delivered, pc, obj, changed, todo,
                   ratingCalls, commitVersion, nTransitions, entrants,
                   pre_pending>>
    /\ UNCHANGED <<chatVars, categoryVars>>

\* A room starts open or invitational, with no entrants yet.
InitRooms ==
    \E s \in {"open", "invitational"} :
        /\ room = [InitRow EXCEPT !.state = s]
        /\ lock = "none"
        /\ messages = <<>>
        /\ delivered = <<>>
        /\ pc = [r \in Reqs |-> "start"]
        /\ obj = [r \in Reqs |-> InitRow]
        /\ changed = [r \in Reqs |-> {}]
        /\ todo = [r \in Reqs |-> <<>>]
        /\ ratingCalls = [r \in Reqs |-> 0]
        /\ commitVersion = [r \in Reqs |-> 0]
        /\ nCommits = 0
        /\ nTransitions = 0
        /\ InitReady
        /\ InitChat
        /\ InitCategory

NextReady ==
    \/ \E u \in Entrants : join(u)
    \/ \E u \in Entrants : withdraw(u)
    \/ \E u \in Entrants : set_ready(u)
    \/ \E u \in Entrants : set_unready(u)
    \/ \E v \in 0..(MaxVersion + 2) : timer_fires(v)

SpecReady == InitRooms /\ [][NextReady]_vars

(***************************************************************************)
(* Chat log (racetime/views/race.py, RaceChatLog).  Messages are kept in   *)
(* the order they were posted; a message's position in that order is its   *)
(* sequence position.  Posting and deleting are in models.Message and the  *)
(* consumers, outside the views; they follow the specification, section 3. *)
(***************************************************************************)

\* Bounds on the number of messages and on the clock.
MaxMessages == 3
MaxClock == 2

\* Who posts a chat message.
Authors == {"user", "system"}

\* The sequences that list every element of the set S exactly once.
orderings(S) ==
    {q \in [1..Cardinality(S) -> S] : \A i, j \in DOMAIN q : i # j => q[i] # q[j]}

\* Line 89: message_set.filter(deleted=False).order_by('posted_at').  The
\* query names no second key, so messages with the same posted_at come in
\* any order.
order_by_posted_at(S) ==
    {q \in orderings(S) :
        \A i, j \in DOMAIN q : i < j => posted_at[q[i]] <= posted_at[q[j]]}

\* Lines 85-94, RaceChatLog.get: the non-deleted messages ordered by
\* posted_at.
chat_log_get ==
    /\ \E q \in order_by_posted_at({i \in DOMAIN messages : i \notin deleted}) :
          chat_log' = q
    /\ UNCHANGED <<editVars, readyVars, posted_at, deleted, clock,
                   categoryVars>>

\* A message is posted: it is appended with the current time.
post_message(a) ==
    /\ Len(messages) < MaxMessages
    /\ messages' = Append(messages, [req |-> a, text |-> "chat"])
    /\ posted_at' = Append(posted_at, clock)
    /\ UNCHANGED <<room, lock, delivered, pc, obj, changed, todo, ratingCalls,
                   commitVersion, nCommits, nTransitions>>
    /\ UNCHANGED <<readyVars, deleted, clock, chat_log, categoryVars>>

\* A message is deleted: only its flag is set.
delete_message(i) ==
    /\ i \in DOMAIN messages
    /\ i \notin deleted
    /\ deleted' = deleted \cup {i}
    /\ UNCHANGED <<editVars, readyVars, posted_at, clock, chat_log,
                   categoryVars>>

\* Time passes.
tick ==
    /\ clock < MaxClock
    /\ clock' = clock + 1
    /\ UNCHANGED <<editVars, readyVars, posted_at, deleted, chat_log,
                   categoryVars>>

NextChat ==
    \/ \E a \in Authors : post_message(a)
    \/ \E i \in 1..(MaxMessages + 1) : delete_message(i)
    \/ tick
    \/ chat_log_get

SpecChat == Init /\ [][NextChat]_vars

(***************************************************************************)
(* Races of a category: creation (racetime/views/race.py, CreateRace) and  *)
(* the listing of the current races (racetime/views/category.py,           *)
(* Category.current_races).  Create requests run concurrently; form_valid  *)
(* reads the user's opened races and saves the new race in two separate    *)
(* statements, with no transaction around them.                            *)
(***************************************************************************)

\* Bound on the lifecycle transitions of the category's races.
MaxAdvances == 2

\* The users that may ask to create a race: an anonymous visitor, a user
\* the category does not let start races, a plain user and a moderator.
CreateUsers == {"anon", "barred", "plain", "mod"}

\* user.is_authenticated
is_authenticated(u) == u # "anon"

\* Category.can_start_race(user)
can_start_race(u) == u \in {"plain", "mod"}

\* Category.can_moderate(user)
can_moderate(u) == u = "mod"

\* Any logged-in user may create a race.
create_allowed_any_authenticated(u) == is_authenticated(u)

\* Lines 188-191, CreateRace.test_func.
create_allowed(u) == is_authenticated(u) /\ can_start_race(u)

\* CreateRace.test_func, at dispatch.
create_test_func(c) ==
    /\ cpc[c] = "start"
    /\ \E u \in CreateUsers :
          /\ cuser' = [cuser EXCEPT ![c] = u]
          /\ cpc' = [cpc EXCEPT ![c] = IF create_allowed(u) THEN "checked"
                                                            ELSE "forbidden"]
    /\ UNCHANGED <<races, cinv, listing, listing_of, nAdvances>>
    /\ UNCHANGED <<editVars, readyVars, chatVars, adminVars, modVars>>

\* Lines 163-168: the user has an opened race that is neither finished nor
\* cancelled.
has_open_race(u) ==
    \E i \in DOMAIN races :
        /\ races[i].opened_by = u
        /\ races[i].state \notin {"finished", "cancelled"}

\* Lines 160-170: a user who cannot moderate the category and has an open
\* race is turned away; otherwise the form, with its invitational flag, goes
\* on to be saved.
create_check(c) ==
    /\ cpc[c] = "checked"
    /\ IF ~can_moderate(cuser[c]) /\ has_open_race(cuser[c])
          THEN /\ cpc' = [cpc EXCEPT ![c] = "rejected"]
               /\ UNCHANGED cinv
          ELSE /\ cpc' = [cpc EXCEPT ![c] = "saving"]
               /\ \E inv \in BOOLEAN : cinv' = [cinv EXCEPT ![c] = inv]
    /\ UNCHANGED <<races, cuser, listing, listing_of, nAdvances>>
    /\ UNCHANGED <<editVars, readyVars, chatVars, adminVars, modVars>>

\* A new race is open whatever the form says.
new_race_state_default(inv) == "open"

\* Lines 172-178: the race the form builds is open unless the form's
\* invitational flag is set.
new_race_state(inv) == IF inv THEN "invitational" ELSE "open"

\* Lines 172-186: the race is saved, opened by the user, at the current time.
create_save(c) ==
    /\ cpc[c] = "saving"
    /\ races' = Append(races, [opened_by |-> cuser[c],
                               state |-> new_race_state(cinv[c]),
                               opened_at |-> clock])
    /\ cpc' = [cpc EXCEPT ![c] = "done"]
    /\ UNCHANGED <<cuser, cinv, listing, listing_of, nAdvances>>
    /\ UNCHANGED <<editVars, readyVars, chatVars, adminVars, modVars>>

\* A race of the category moves on in its lifecycle.
race_advance(i) ==
    /\ i \in DOMAIN races
    /\ nAdvances < MaxAdvances
    /\ \E s \in next_states(races[i].state) :
          races' = [races EXCEPT ![i].state = s]
    /\ nAdvances' = nAdvances + 1
    /\ UNCHANGED <<cpc, cuser, cinv, listing, listing_of>>
    /\ UNCHANGED <<editVars, readyVars, chatVars, adminVars, modVars>>

\* Lines 44-61: the state_sort annotation.
state_sort(s) ==
    CASE s \in {"open", "invitational"} -> 1
      [] s = "pending" -> 2
      [] s = "in_progress" -> 2
      [] OTHER -> 0

\* Lines 40-43: the races that are neither finished nor cancelled.
current(rs) ==
    {i \in DOMAIN rs : rs[i].state \notin {"finished", "cancelled"}}

\* Line 62: order_by('state_sort', 'opened_at').  The query names no further
\* key, so races equal in both come in any order.
order_by_state_sort_opened_at(S) ==
    {q \in orderings(S) :
        \A i, j \in DOMAIN q :
           i < j => \/ state_sort(races[q[i]].state) < state_sort(races[q[j]].state)
                    \/ /\ state_sort(races[q[i]].state) = state_sort(races[q[j]].state)
                       /\ races[q[i]].opened_at <= races[q[j]].opened_at}

\* Lines 39-62, Category.current_races.
current_races ==
    /\ \E q \in order_by_state_sort_opened_at(current(races)) : listing' = q
    /\ listing_of' = races
    /\ UNCHANGED <<races, cpc, cuser, cinv, nAdvances>>
    /\ UNCHANGED <<editVars, readyVars, chatVars, adminVars, modVars>>

NextCategory ==
    \/ \E c \in CreateReqs : create_test_func(c)
    \/ \E c \in CreateReqs : create_check(c)
    \/ \E c \in CreateReqs : create_save(c)
    \/ \E i \in 1..Cardinality(CreateReqs) : race_advance(i)
    \/ current_races
    \/ tick

SpecCategory == Init /\ [][NextCategory]_vars

(***************************************************************************)
(* Category administration and management (racetime/views/category.py,     *)
(* AdministrateCategory, DeactivateCategory, ReactivateCategory,           *)
(* ManageCategory).  test_func runs at dispatch; post then reads the       *)
(* category, and the action, when it has something to change, writes the   *)
(* flag and the audit entry in one transaction.                            *)
(***************************************************************************)

\* Lines 251-252, AdministrateCategory.test_func.
administrate_allowed(u) == u.is_active /\ u.is_staff

\* Dispatch of a deactivate or reactivate request.
administrate_test_func(a) ==
    /\ apc[a] = "start"
    /\ \E u \in Users, op \in {"deactivate", "activate"} :
          /\ auser' = [auser EXCEPT ![a] = u]
          /\ aop' = [aop EXCEPT ![a] = op]
          /\ apc' = [apc EXCEPT ![a] = IF administrate_allowed(u)
                                          THEN "allowed" ELSE "forbidden"]
    /\ UNCHANGED <<category_active, audit, mpc, muser>>
    /\ UNCHANGED <<editVars, readyVars, chatVars, raceVars, modVars>>

\* Lines 246-248, 257-258 and 275-276: post reads the category, and the
\* action returns at once when the flag it read is already what was asked.
administrate_post(a) ==
    /\ apc[a] = "allowed"
    /\ apc' = [apc EXCEPT ![a] =
                  IF category_active = (aop[a] = "activate")
                     THEN "done" ELSE "acting"]
    /\ UNCHANGED <<category_active, audit, auser, aop, mpc, muser>>
    /\ UNCHANGED <<editVars, readyVars, chatVars, raceVars, modVars>>

\* Lines 259-266 and 277-284: the flag and the audit entry, in one
\* transaction.
administrate_action(a) ==
    /\ apc[a] = "acting"
    /\ category_active' = (aop[a] = "activate")
    /\ audit' = Append(audit, aop[a])
    /\ apc' = [apc EXCEPT ![a] = "done"]
    /\ UNCHANGED <<auser, aop, mpc, muser>>
    /\ UNCHANGED <<editVars, readyVars, chatVars, raceVars, modVars>>

\* Whoever can edit the category may manage it, active or not.
manage_allowed_can_edit(active, u) == u.can_edit

\* Lines 299-306, ManageCategory.test_func.
manage_allowed(active, u) ==
    IF active THEN u.can_edit ELSE u.is_active /\ u.is_staff

\* Dispatch of a request to a management page (moderator list, add or
\* remove a moderator, transfer the owner, audit log).
manage_test_func(m) ==
    /\ mpc[m] = "start"
    /\ \E u \in Users :
          /\ muser' = [muser EXCEPT ![m] = u]
          /\ mpc' = [mpc EXCEPT ![m] = IF manage_allowed(category_active, u)
                                          THEN "allowed" ELSE "forbidden"]
    /\ UNCHANGED <<category_active, audit, apc, auser, aop>>
    /\ UNCHANGED <<editVars, readyVars, chatVars, raceVars, modVars>>

NextManage ==
    \/ \E a \in AdminReqs : administrate_test_func(a)
    \/ \E a \in AdminReqs : administrate_post(a)
    \/ \E a \in AdminReqs : administrate_action(a)
    \/ \E m \in ManageReqs : manage_test_func(m)

SpecManage == Init /\ [][NextManage]_vars

(***************************************************************************)
(* Moderators and owner of a category (racetime/views/category.py,         *)
(* ModPageMixin, AddModerator, RemoveModerator, TransferOwner).  The       *)
(* category instance, its owner included, is loaded once per request, at   *)
(* dispatch; self.moderators is a new query every time it is used.  Only   *)
(* TransferOwner wraps its writes in a transaction.                        *)
(***************************************************************************)

\* A category with an owner and, besides the owner, at most max_moderators
\* moderators.
InitModsAny ==
    /\ owner = "u1"
    /\ moderators \in {M \in SUBSET (People \ {"u1"}) :
                          Cardinality(M) <= max_moderators}
    /\ InitModReqs

InitCategoryMods ==
    InitEdit /\ InitReady /\ InitChat /\ InitRaces /\ InitAdmin /\ InitModsAny

\* The page a request asks for and the first step of its form_valid.
ModOps == {"add", "remove", "transfer"}

\* Lines 294-306: dispatch loads the category, with its owner, and runs
\* ManageCategory.test_func for the user of the request; the form names a
\* user.
mod_test_func(q) ==
    /\ qpc[q] = "start"
    /\ \E op \in ModOps, u \in People, actor \in Users :
          /\ qop' = [qop EXCEPT ![q] = op]
          /\ quser' = [quser EXCEPT ![q] = u]
          /\ qpc' = [qpc EXCEPT ![q] = IF manage_allowed(category_active, actor)
                                          THEN op ELSE "forbidden"]
    /\ qcat' = [qcat EXCEPT ![q] = [owner |-> owner,
                                    active |-> category_active]]
    /\ UNCHANGED <<owner, moderators>>
    /\ UNCHANGED <<editVars, readyVars, chatVars, raceVars, adminVars>>

\* Lines 341-347: the user named is the owner the request loaded, or is
\* among the moderators read now.
add_check_member(q) ==
    /\ qpc[q] = "add"
    /\ qpc' = [qpc EXCEPT ![q] =
                  IF quser[q] = qcat[q].owner \/ quser[q] \in moderators
                     THEN "rejected" ELSE "add_count"]
    /\ UNCHANGED <<owner, moderators, qop, quser, qcat>>
    /\ UNCHANGED <<editVars, readyVars, chatVars, raceVars, adminVars>>

\* Lines 348-353: the moderators are read again and counted.
add_check_count(q) ==
    /\ qpc[q] = "add_count"
    /\ qpc' = [qpc EXCEPT ![q] =
                  IF Cardinality(moderators) >= max_moderators
                     THEN "rejected" ELSE "adding"]
    /\ UNCHANGED <<owner, moderators, qop, quser, qcat>>
    /\ UNCHANGED <<editVars, readyVars, chatVars, raceVars, adminVars>>

\* Lines 355-361: the moderator is added and the audit entry written.
add_save(q) ==
    /\ qpc[q] = "adding"
    /\ moderators' = moderators \cup {quser[q]}
    /\ audit' = Append(audit, "moderator_add")
    /\ qpc' = [qpc EXCEPT ![q] = "done"]
    /\ UNCHANGED <<owner, qop, quser, qcat>>
    /\ UNCHANGED <<category_active, apc, auser, aop, mpc, muser>>
    /\ UNCHANGED <<editVars, readyVars, chatVars, raceVars>>

\* Lines 382-388: the user named is not among the moderators read now.
remove_check(q) ==
    /\ qpc[q] = "remove"
    /\ qpc' = [qpc EXCEPT ![q] = IF quser[q] \notin moderators
                                    THEN "rejected" ELSE "removing"]
    /\ UNCHANGED <<owner, moderators, qop, quser, qcat>>
    /\ UNCHANGED <<editVars, readyVars, chatVars, raceVars, adminVars>>

\* Lines 390-396: the moderator is removed and the audit entry written.
remove_save(q) ==
    /\ qpc[q] = "removing"
    /\ moderators' = moderators \ {quser[q]}
    /\ audit' = Append(audit, "moderator_remove")
    /\ qpc' = [qpc EXCEPT ![q] = "done"]
    /\ UNCHANGED <<owner, qop, quser, qcat>>
    /\ UNCHANGED <<category_active, apc, auser, aop, mpc, muser>>
    /\ UNCHANGED <<editVars, readyVars, chatVars, raceVars>>

\* Lines 414-430: in one transaction the category instance the request
\* holds is saved with the new owner, every other column as it was loaded;
\* the new owner is taken out of the moderators; the audit entry is written.
transfer_save(q) ==
    /\ qpc[q] = "transfer"
    /\ owner' = quser[q]
    /\ category_active' = qcat[q].active
    /\ moderators' = moderators \ {quser[q]}
    /\ audit' = Append(audit, "owner_change")
    /\ qpc' = [qpc EXCEPT ![q] = "done"]
    /\ UNCHANGED <<qop, quser, qcat>>
    /\ UNCHANGED <<apc, auser, aop, mpc, muser>>
    /\ UNCHANGED <<editVars, readyVars, chatVars, raceVars>>

NextMods ==
    \/ \E q \in ModReqs : mod_test_func(q)
    \/ \E q \in ModReqs : add_check_member(q)
    \/ \E q \in ModReqs : add_check_count(q)
    \/ \E q \in ModReqs : add_save(q)
    \/ \E q \in ModReqs : remove_check(q)
    \/ \E q \in ModReqs : remove_save(q)
    \/ \E q \in ModReqs : transfer_save(q)

SpecMods == InitCategoryMods /\ [][NextMods]_vars

(***************************************************************************)
(* Properties                                                              *)
(***************************************************************************)

\* The messages request r has added so far, in order.
messages_of(msgs, r) == SelectSeq(msgs, LAMBDA m : m.req = r)

\* The groups of form fields that share one system message.
MessageGroups ==
    {{"goal", "custom_goal"}, {"info"}, {"streaming_required"},
     {"chat_message_delay"}}

\* C1: of two edit requests that read the room at the same version, at most
\* one commits.
C1_AtMostOneCommitPerVersion ==
    \A r1, r2 \in Reqs :
        (r1 # r2 /\ commitVersion[r1] # 0 /\ commitVersion[r2] # 0)
            => obj[r1].version # obj[r2].version

\* C2: the stored version is the initial version plus the number of
\* mutations committed so far.
C2_VersionCountsCommits ==
    room.version = InitRow.version + nCommits

\* C2 witness: two edits that read the same version have both committed,
\* with a lifecycle transition committed as well.
C2_Witness ==
    /\ commitVersion["r1"] # 0
    /\ commitVersion["r2"] # 0
    /\ obj["r1"].version = obj["r2"].version
    /\ nTransitions > 0

\* C3: no edit commits while the stored room is finished or cancelled.
C3_NoEditCommitOnDoneRoom ==
    [][\A r \in Reqs :
          (commitVersion[r] = 0 /\ commitVersion'[r] # 0) => ~is_done(room)]_vars

\* C4: once the stored state is finished or cancelled it keeps that value.
C4_DoneIsAbsorbing ==
    [][is_done(room) => room'.state = room.state]_vars

\* C5: the system messages of the mutation that committed first precede
\* those of the mutation that committed later.
C5_MessagesInCommitOrder ==
    \A i, j \in 1..Len(messages) :
        i < j => commitVersion[messages[i].req] <= commitVersion[messages[j].req]

\* C6: whenever an edit is committed, all its system messages are recorded.
C6_EditAndMessagesTogether ==
    \A r \in Reqs :
        commitVersion[r] # 0
            => messages_of(messages, r)
                 = [i \in 1..Len(edit_messages(changed[r], obj[r])) |->
                       [req |-> r,
                        text |-> edit_messages(changed[r], obj[r])[i]]]

\* C7: the snapshots delivered for the room carry the versions after the
\* initial one in order, none of them skipped and none before its
\* predecessor.  A snapshot that repeats the version delivered last is not
\* counted against the claim here, so a violation of this formula is a
\* violation of the strictly increasing order claimed.
C7_DeliveryInVersionOrder ==
    \A i \in 1..Len(delivered) :
        LET last == IF i = 1 THEN InitRow.version ELSE delivered[i - 1]
        IN  delivered[i] \in {last, last + 1}

\* C8: a committed edit has called the rating update once if goal or
\* custom_goal changed and not at all otherwise; a rejected edit never
\* calls it and commits nothing.
C8_RatingTriggeredOnce ==
    \A r \in Reqs :
        /\ commitVersion[r] # 0
              => ratingCalls[r] =
                    (IF "goal" \in changed[r] \/ "custom_goal" \in changed[r]
                        THEN 1 ELSE 0)
        /\ pc[r] = "forbidden"
              => (ratingCalls[r] = 0 /\ commitVersion[r] = 0)

\* C8 witness: an edit that changed both goal and custom_goal is done and
\* has called the rating update once.
C8_Witness ==
    \E r \in Reqs :
        /\ pc[r] = "done"
        /\ {"goal", "custom_goal"} \subseteq changed[r]
        /\ ratingCalls[r] = 1

C10_OneMessagePerChangedGroup ==
    [][\A r \in Reqs :
          /\ (commitVersion[r] = 0 /\ commitVersion'[r] # 0)
                => (room'.version = room.version + 1
                    /\ commitVersion'[r] = room'.version)
          /\ pc'[r] = "done"
                => /\ Len(messages_of(messages', r))
                        = Cardinality({g \in MessageGroups :
                                          g \cap changed'[r] # {}})
                   /\ (changed'[r] = {"streaming_required"}
                       /\ obj'[r].streaming_required)
                         => messages_of(messages', r)
                              = <<[req |-> r,
                                   text |-> "Streaming is now required for this race."]>>
      ]_vars

\* C10 witness: an edit of an open room that changed only streaming_required,
\* to true, is done.
C10_Witness ==
    \E r \in Reqs :
        /\ pc[r] = "done"
        /\ changed[r] = {"streaming_required"}
        /\ obj[r].streaming_required
        /\ obj[r].state = "open"
        /\ Len(messages_of(messages, r)) = 1

\* C11: a ready toggle makes an open or invitational room pending if and
\* only if every non-withdrawn entrant is ready in the state the toggle
\* commits, and the room never enters pending with a non-withdrawn entrant
\* that is not ready.
C11_PendingIffAllReady ==
    [][/\ (\E u \in Entrants : ~entrants[u].ready /\ entrants'[u].ready)
             => (room'.state = "pending"
                   <=> \A w \in Entrants :
                          entrants'[w].status = "joined" => entrants'[w].ready)
       /\ room'.state = "pending"
             => \A w \in Entrants :
                   entrants'[w].status = "joined" => entrants'[w].ready
      ]_vars

\* C11 witness: the room is pending while a withdrawn entrant is not ready.
C11_Witness ==
    /\ room.state = "pending"
    /\ \E u \in Entrants :
          entrants[u].status = "withdrawn" /\ ~entrants[u].ready

\* C12: an un-ready during pending puts the room back into the state it had
\* before pending, open or invitational, and changes no other entrant.
C12_UnreadyRevertsPending ==
    [][\A u \in Entrants :
          (room.state = "pending" /\ entrants[u].ready /\ ~entrants'[u].ready)
             => /\ room'.state = pre_pending
                /\ room'.state \in {"open", "invitational"}
                /\ \A w \in Entrants \ {u} : entrants'[w] = entrants[w]
      ]_vars

\* C12 witness: the end of the scenario.  A and B joined an open room, A and
\* then B became ready, A un-readied during pending: the room is open, A is
\* not ready, B is ready, and the countdown of the pending state is stale.
C12_Witness ==
    /\ room.state = "open"
    /\ entrants["A"] = [status |-> "joined", ready |-> FALSE]
    /\ entrants["B"] = [status |-> "joined", ready |-> TRUE]
    /\ timers = {room.version - 2}

\* C13: an un-ready during pending is one commit that raises the version by
\* two and leaves pending; no state shows the room pending with a
\* non-withdrawn entrant that is not ready.
C13_UnreadyIsOneCommitOfTwo ==
    [][/\ \A u \in Entrants :
             (room.state = "pending" /\ entrants[u].ready
              /\ ~entrants'[u].ready)
                => (room'.version = room.version + 2
                    /\ room'.state # "pending")
       /\ ~(room'.state = "pending"
            /\ \E u \in Entrants :
                  entrants'[u].status = "joined" /\ ~entrants'[u].ready)
      ]_vars

\* C13 witness: an invitational room just after such an un-ready: the
\* countdown in flight was armed two versions ago.
C13_Witness ==
    /\ room.state = "invitational"
    /\ pre_pending = "none"
    /\ \E v \in timers : room.version = v + 2

\* C14: a countdown that elapses starts the race if the room's version is
\* the one it was armed at, and changes nothing otherwise.
C14_StaleTimerIsNoOp ==
    [][\A v \in timers :
          v \notin timers'
             => IF v = room.version
                   THEN room.state = "pending" /\ room'.state = "in_progress"
                   ELSE room' = room
      ]_vars

\* C14 witness: the countdown of a reverted pending state has elapsed.  One
\* entrant joined (version 1), became ready (pending, version 3) and
\* un-readied (version 5); no countdown is left and the room is open.
C14_Witness ==
    /\ room.state = "open"
    /\ room.version = 5
    /\ entrants["A"] = [status |-> "joined", ready |-> FALSE]
    /\ entrants["B"].status = "none"
    /\ timers = {}

\* C15: messages keep their positions 1..n in posting order, a deletion
\* removes nothing, and a chat log lists exactly the non-deleted messages in
\* posting order.
C15_ChatLogInPostingOrder ==
    [][/\ Len(messages') >= Len(messages)
       /\ SubSeq(messages', 1, Len(messages)) = messages
       /\ chat_log' # chat_log
             => /\ {chat_log'[k] : k \in DOMAIN chat_log'}
                     = {i \in DOMAIN messages : i \notin deleted}
                /\ \A k \in 1..(Len(chat_log') - 1) :
                      chat_log'[k] < chat_log'[k + 1]
      ]_vars

\* The place of a race's state in the listing: open and invitational first,
\* then pending and in progress, then any other state.
listing_group(st) ==
    IF st \in {"open", "invitational"} THEN 1
    ELSE IF st \in {"pending", "in_progress"} THEN 2
    ELSE 3

\* C16: a listing holds exactly the races that are neither finished nor
\* cancelled, group by group, each group by opened time ascending, and a
\* listing made again over the same races is the same listing.
C16_CurrentRacesListing ==
    [][(listing' # listing \/ listing_of' # listing_of)
          => /\ {listing'[k] : k \in DOMAIN listing'}
                  = {i \in DOMAIN races :
                        races[i].state \notin {"finished", "cancelled"}}
             /\ \A k, l \in DOMAIN listing' :
                   k < l
                     => /\ listing_group(races[listing'[k]].state)
                             <= listing_group(races[listing'[l]].state)
                        /\ listing_group(races[listing'[k]].state)
                             = listing_group(races[listing'[l]].state)
                              => races[listing'[k]].opened_at
                                    <= races[listing'[l]].opened_at
             /\ (listing_of = races /\ races' = races) => listing' = listing
      ]_vars

\* C17: a race is created only by the step that ends a create request of an
\* authenticated user the category lets start races, and it is created
\* invitational if the request set the invitational flag and open otherwise;
\* a refused request creates nothing.
C17_CreatedByPermittedUser ==
    [][/\ Len(races') >= Len(races)
       /\ Len(races') > Len(races)
             => \E c \in CreateReqs :
                   /\ cpc[c] # "done" /\ cpc'[c] = "done"
                   /\ Len(races') = Len(races) + 1
                   /\ races'[Len(races')].opened_by = cuser[c]
                   /\ is_authenticated(cuser[c])
                   /\ can_start_race(cuser[c])
                   /\ races'[Len(races')].state
                         = (IF cinv[c] THEN "invitational" ELSE "open")
       /\ \A c \in CreateReqs :
             (cpc'[c] \in {"forbidden", "rejected"} /\ cpc[c] # cpc'[c])
                => races' = races
      ]_vars

\* C17 witness: a plain user has created an invitational race and a
\* moderator an open one.
C17_Witness ==
    /\ \E i \in DOMAIN races :
          races[i].opened_by = "plain" /\ races[i].state = "invitational"
    /\ \E i \in DOMAIN races :
          races[i].opened_by = "mod" /\ races[i].state = "open"
    /\ nAdvances = 0

\* C19: a user who cannot moderate the category has at most one race that is
\* neither finished nor cancelled.
C19_OneOpenRacePerUser ==
    \A u \in CreateUsers :
        ~can_moderate(u)
           => Cardinality({i \in DOMAIN races :
                              /\ races[i].opened_by = u
                              /\ races[i].state \notin {"finished", "cancelled"}})
                 <= 1

\* C18: a request to a management page is let through, on an active
\* category, exactly when the user can edit the category and, on an inactive
\* one, exactly when the user is active and staff; a request to deactivate
\* or reactivate is let through exactly when the user is active and staff,
\* and only such a request changes the active flag.
C18_ManagePermissions ==
    [][/\ \A m \in ManageReqs :
             (mpc[m] = "start" /\ mpc'[m] # "start")
                => /\ mpc'[m] \in {"allowed", "forbidden"}
                   /\ mpc'[m] = "allowed"
                        <=> IF category_active
                               THEN muser'[m].can_edit
                               ELSE muser'[m].is_active /\ muser'[m].is_staff
       /\ \A a \in AdminReqs :
             (apc[a] = "start" /\ apc'[a] # "start")
                => /\ apc'[a] \in {"allowed", "forbidden"}
                   /\ apc'[a] = "allowed"
                        <=> (auser'[a].is_active /\ auser'[a].is_staff)
       /\ category_active' # category_active
             => \E a \in AdminReqs :
                   /\ apc[a] = "acting" /\ apc'[a] = "done"
                   /\ auser[a].is_active /\ auser[a].is_staff
      ]_vars

\* C18 witness: on the deactivated category a user who can edit it but is
\* not staff has been turned away from a management page.
C18_Witness ==
    /\ ~category_active
    /\ \E a \in AdminReqs : apc[a] = "done" /\ aop[a] = "deactivate"
    /\ \E m \in ManageReqs :
          /\ mpc[m] = "forbidden"
          /\ muser[m].can_edit
          /\ ~muser[m].is_staff

\* C20: the commit of an edit leaves the stored state of the room as it was
\* immediately before that commit.
C20_EditKeepsStoredState ==
    [][\A r \in Reqs :
          (commitVersion[r] = 0 /\ commitVersion'[r] # 0)
             => room'.state = room.state]_vars

\* C24: the category's 'deactivate' and 'activate' audit entries strictly
\* alternate, and the last of them agrees with the stored active flag.
C24_AuditEntriesAlternate ==
    LET flips == SelectSeq(audit,
                           LAMBDA e : e \in {"deactivate", "activate"})
    IN  /\ \A k \in 1..(Len(flips) - 1) : flips[k] # flips[k + 1]
        /\ Len(flips) > 0
              => (category_active <=> flips[Len(flips)] = "activate")

\* C21: every committed edit goes on to broadcast the room.  An edit that
\* changed no field broadcasts the room itself, once, and adds no message;
\* an edit that changed a field adds at least one system message, each with
\* its broadcast, and does not broadcast the room itself.
C21_CommittedEditBroadcasts ==
    /\ [][\A r \in Reqs :
             /\ (commitVersion[r] = 0 /\ commitVersion'[r] # 0)
                   => IF changed[r] = {}
                         THEN pc'[r] = "broadcast" /\ todo'[r] = <<>>
                         ELSE pc'[r] = "messages" /\ todo'[r] # <<>>
             /\ (pc[r] = "broadcast" /\ pc'[r] # "broadcast")
                   => /\ pc'[r] = "done"
                      /\ Len(delivered') = Len(delivered) + 1
                      /\ delivered'[Len(delivered')] >= commitVersion[r]
                      /\ messages_of(messages', r) = <<>>
             /\ (pc[r] = "messages" /\ pc'[r] # "messages")
                   => /\ pc'[r] = "done"
                      /\ messages_of(messages', r) # <<>>
             /\ messages_of(messages', r) # messages_of(messages, r)
                   => /\ pc[r] = "messages"
                      /\ Len(delivered') = Len(delivered) + 1
                      /\ delivered'[Len(delivered')] >= commitVersion[r]
             /\ pc[r] = "done" => pc'[r] = "done"
         ]_vars
    /\ \A r \in Reqs : (commitVersion[r] # 0) ~> (pc[r] = "done")

\* C21 witness: one edit that changed nothing has committed and broadcast
\* the room, another that changed a field has committed and added its
\* message.
C21_Witness ==
    /\ commitVersion["r1"] # 0 /\ changed["r1"] = {}
    /\ pc["r1"] = "done" /\ messages_of(messages, "r1") = <<>>
    /\ commitVersion["r2"] # 0 /\ changed["r2"] # {}
    /\ pc["r2"] = "done" /\ messages_of(messages, "r2") # <<>>

\* C22: the category never has more moderators than max_moderators.
C22_ModeratorsWithinMaximum ==
    Cardinality(moderators) <= max_moderators

\* C23: the owner of the category is not one of its moderators.
C23_OwnerIsNoModerator ==
    owner \notin moderators
====
